---- MODULE Spec2Model ----
\* Income over feed cost (IOFC): calc_IOFC_manual and calc_IOFC_nd of
\* README.md / IOFC_template.ipynb, with the module-level price table the
\* notebook defines and the float arithmetic the functions perform.
EXTENDS Integers, Sequences, FiniteSets, TLC

\* ---------------------------------------------------------------------------
\* Natural numbers of arbitrary size, as little-endian sequences of limbs in
\* base 2^15 without leading zero limbs (<<>> is 0).  They carry the 53-bit
\* significands and the exact intermediate results of the arithmetic below.
\* ---------------------------------------------------------------------------
W == 32768
LimbBits == 15

RECURSIVE Pow2(_)
Pow2(n) == IF n = 0 THEN 1 ELSE 2 * Pow2(n - 1)

\* Python evaluates the operands of an operation once, before the operation:
\* F applied to the values of its operands
Strict(F(_), x) == CHOOSE r \in {F(v) : v \in {x}} : TRUE
Strict2(F(_, _), x, y) == CHOOSE r \in {F(v, w) : v \in {x}, w \in {y}} : TRUE

RECURSIVE TopLimb(_, _)
TopLimb(a, i) == IF i = 0 \/ a[i] # 0 THEN i ELSE TopLimb(a, i - 1)

BTrimV(a) == SubSeq(a, 1, TopLimb(a, Len(a)))
BTrim(a) == Strict(BTrimV, a)

RECURSIVE BFromInt(_)
BFromInt(n) == IF n = 0 THEN <<>> ELSE <<n % W>> \o BFromInt(n \div W)

RECURSIVE BAddC(_, _, _)
BAddC(a, b, c) ==
    IF a = <<>> /\ b = <<>> THEN (IF c = 0 THEN <<>> ELSE <<c>>)
    ELSE LET x == (IF a = <<>> THEN 0 ELSE Head(a)) + (IF b = <<>> THEN 0 ELSE Head(b)) + c
         IN  <<x % W>> \o BAddC(IF a = <<>> THEN a ELSE Tail(a),
                                IF b = <<>> THEN b ELSE Tail(b), x \div W)

BAdd(a, b) == BAddC(a, b, 0)

\* a - b - c for a >= b + c
RECURSIVE BSubC(_, _, _)
BSubC(a, b, c) ==
    IF a = <<>> THEN <<>>
    ELSE LET x == Head(a) - (IF b = <<>> THEN 0 ELSE Head(b)) - c
         IN  <<x % W>> \o BSubC(Tail(a), IF b = <<>> THEN b ELSE Tail(b),
                                IF x < 0 THEN 1 ELSE 0)

BSub(a, b) == BTrim(BSubC(a, b, 0))

RECURSIVE BCmpFrom(_, _, _)
BCmpFrom(a, b, i) ==
    IF i = 0 THEN 0
    ELSE IF a[i] < b[i] THEN -1
    ELSE IF a[i] > b[i] THEN 1
    ELSE BCmpFrom(a, b, i - 1)

BCmp(a, b) == IF Len(a) < Len(b) THEN -1
              ELSE IF Len(a) > Len(b) THEN 1
              ELSE BCmpFrom(a, b, Len(a))

RECURSIVE BMulSmallC(_, _, _)
BMulSmallC(a, k, c) ==
    IF a = <<>> THEN (IF c = 0 THEN <<>> ELSE <<c>>)
    ELSE LET x == Head(a) * k + c
         IN  <<x % W>> \o BMulSmallC(Tail(a), k, x \div W)

BMulSmall(a, k) == IF k = 0 THEN <<>> ELSE BMulSmallC(a, k, 0)

RECURSIVE BMul(_, _)
BMul(a, b) ==
    IF a = <<>> \/ b = <<>> THEN <<>>
    ELSE LET rest == BMul(a, Tail(b))
         IN  BAdd(BMulSmall(a, Head(b)), IF rest = <<>> THEN <<>> ELSE <<0>> \o rest)

\* floor(a / k) for 0 < k < W, from the most significant limb down
RECURSIVE BDivSmallR(_, _, _, _)
BDivSmallR(a, k, i, r) ==
    IF i = 0 THEN <<>>
    ELSE LET x == r * W + a[i]
         IN  BDivSmallR(a, k, i - 1, x % k) \o <<x \div k>>

BDivSmall(a, k) == BTrim(BDivSmallR(a, k, Len(a), 0))

Zeros(n) == [i \in 1..n |-> 0]

BShl(a, n) == IF a = <<>> THEN <<>>
              ELSE Zeros(n \div LimbBits) \o BMulSmall(a, Pow2(n % LimbBits))

BShr(a, n) == IF n \div LimbBits >= Len(a) THEN <<>>
              ELSE BDivSmall(SubSeq(a, n \div LimbBits + 1, Len(a)), Pow2(n % LimbBits))

BLowZero(a, n) == BShl(BShr(a, n), n) = a

RECURSIVE SmallBitLen(_)
SmallBitLen(x) == IF x = 0 THEN 0 ELSE 1 + SmallBitLen(x \div 2)

BBitLen(a) == IF a = <<>> THEN 0 ELSE LimbBits * (Len(a) - 1) + SmallBitLen(a[Len(a)])

BOdd(a) == a # <<>> /\ a[1] % 2 = 1

RECURSIVE BToInt(_)
BToInt(a) == IF a = <<>> THEN 0 ELSE Head(a) + W * BToInt(Tail(a))

RECURSIVE BFromDigitsTo(_, _)
BFromDigitsTo(ds, i) == IF i = 0 THEN <<>>
                        ELSE BAdd(BMulSmall(BFromDigitsTo(ds, i - 1), 10), BFromInt(ds[i]))

\* the natural number with decimal digits ds, most significant first
BFromDigits(ds) == BFromDigitsTo(ds, Len(ds))

RECURSIVE BPow10(_)
BPow10(p) == IF p = 0 THEN <<1>> ELSE BMulSmall(BPow10(p - 1), 10)

\* nearest integer to a / 2^n (plus a sticky fraction below a), ties to even
BRoundShrV(a, n, sticky) ==
    IF n = 0 THEN a
    ELSE LET q  == BShr(a, n)
             rb == BOdd(BShr(a, n - 1))
             st == sticky \/ ~BLowZero(a, n - 1)
         IN  IF rb /\ (st \/ BOdd(q)) THEN BAdd(q, <<1>>) ELSE q

BRoundShr(a, n, sticky) == Strict(LAMBDA v : BRoundShrV(v, n, sticky), a)

\* ---------------------------------------------------------------------------
\* Python float / numpy float64: IEEE-754 binary64, round to nearest, ties to
\* even.  A finite value is (-1)^s * m * 2^e with m = 0 or 2^52 <= m < 2^53.
\* Results beyond the largest double become infinities; subnormal results do
\* not arise for the magnitudes of the bounded inputs.
\* ---------------------------------------------------------------------------
MantBits == 53
MaxExp == 971

NaN == [k |-> "nan", s |-> 0, m |-> <<>>, e |-> 0]
Inf(s) == [k |-> "inf", s |-> s, m |-> <<>>, e |-> 0]
Zero(s) == [k |-> "fin", s |-> s, m |-> <<>>, e |-> 0]

IsNaN(x) == x.k = "nan"
IsZero(x) == x.k = "fin" /\ x.m = <<>>

\* round (-1)^s * (M + sticky fraction) * 2^e to the nearest double, ties to even
\* a significand of 53 or (after a carry out of rounding) 54 bits, packed
FPack(s, m1, e) ==
    IF BBitLen(m1) > MantBits
    THEN (IF e + 1 > MaxExp THEN Inf(s)
          ELSE [k |-> "fin", s |-> s, m |-> BShr(m1, 1), e |-> e + 1])
    ELSE (IF e > MaxExp THEN Inf(s) ELSE [k |-> "fin", s |-> s, m |-> m1, e |-> e])

FRoundV(s, M, sticky, e) ==
    IF M = <<>> THEN Zero(s)
    ELSE LET sh == BBitLen(M) - MantBits
         IN  IF sh <= 0
             THEN [k |-> "fin", s |-> s, m |-> BShl(M, -sh), e |-> e + sh]
             ELSE Strict(LAMBDA m1 : FPack(s, m1, e + sh), BRoundShrV(M, sh, sticky))

FRound(s, M, sticky, e) == Strict(LAMBDA v : FRoundV(s, v, sticky, e), M)

FromInt(n) == IF n < 0 THEN FRound(1, BFromInt(-n), FALSE, 0)
              ELSE FRound(0, BFromInt(n), FALSE, 0)

FNeg(x) == IF IsNaN(x) THEN x ELSE [x EXCEPT !.s = 1 - x.s]

Xor(a, b) == IF a = b THEN 0 ELSE 1

FMulV(x, y) ==
    IF IsNaN(x) \/ IsNaN(y) THEN NaN
    ELSE IF x.k = "inf" \/ y.k = "inf"
         THEN (IF IsZero(x) \/ IsZero(y) THEN NaN ELSE Inf(Xor(x.s, y.s)))
    ELSE FRound(Xor(x.s, y.s), BMul(x.m, y.m), FALSE, x.e + y.e)

FMul(x, y) == Strict2(FMulV, x, y)

\* largest q with q * d <= r, starting from an estimate that is not below it
RECURSIVE DigitFix(_, _, _)
DigitFix(r, d, q) == IF BCmp(BMulSmall(d, q), r) > 0 THEN DigitFix(r, d, q - 1) ELSE q

\* one quotient limb of r / d, for r < d * W and the top limb of d at least W / 2
Digit(r, d) ==
    LET n  == Len(d)
        rt == (IF Len(r) > n THEN r[n + 1] * W ELSE 0) + (IF Len(r) >= n THEN r[n] ELSE 0)
        qh == rt \div d[n]
    IN  DigitFix(r, d, IF qh > W - 1 THEN W - 1 ELSE qh)

\* schoolbook long division over the limbs i..1 of a; result <<quotient, remainder>>
RECURSIVE LongDiv(_, _, _, _)
LongDiv(a, d, i, r) ==
    IF i = 0 THEN <<<<>>, r>>
    ELSE LET r1 == BTrim(<<a[i]>> \o r)
             q  == Digit(r1, d)
              IN  Strict(LAMBDA rest : <<rest[1] \o <<q>>, rest[2]>>,
                    LongDiv(a, d, i - 1, BSub(r1, BMulSmall(d, q))))

\* <<floor(a / d), a - d * floor(a / d) scaled by a power of two>> for d > 0
BDivModV(a, d) ==
    LET t == LimbBits * Len(d) - BBitLen(d)
    IN  Strict2(LAMBDA a1, d1 :
                    Strict(LAMBDA qr : <<BTrim(qr[1]), qr[2]>>, LongDiv(a1, d1, Len(a1), <<>>)),
                BShl(a, t), BShl(d, t))

BDivMod(a, d) == Strict2(BDivModV, a, d)

QuotBits == 56

\* (-1)^s * (N / D) * 2^e for naturals N, D > 0, correctly rounded
FRatioV(s, N, D, e) ==
    LET k == IF BBitLen(D) + QuotBits > BBitLen(N)
             THEN BBitLen(D) + QuotBits - BBitLen(N) ELSE 0
    IN  Strict(LAMBDA qr : FRoundV(s, qr[1], qr[2] # <<>>, e - k), BDivModV(BShl(N, k), D))

FRatio(s, N, D, e) == Strict2(LAMBDA n, d : FRatioV(s, n, d, e), N, D)

FDivV(x, y) ==
    IF IsNaN(x) \/ IsNaN(y) THEN NaN
    ELSE IF x.k = "inf" THEN (IF y.k = "inf" THEN NaN ELSE Inf(Xor(x.s, y.s)))
    ELSE IF y.k = "inf" THEN Zero(Xor(x.s, y.s))
    ELSE IF IsZero(y) THEN (IF IsZero(x) THEN NaN ELSE Inf(Xor(x.s, y.s)))
    ELSE IF IsZero(x) THEN Zero(Xor(x.s, y.s))
    ELSE FRatio(Xor(x.s, y.s), x.m, y.m, x.e - y.e)

FDiv(x, y) == Strict2(FDivV, x, y)

FAddV(x, y) ==
    IF IsNaN(x) \/ IsNaN(y) THEN NaN
    ELSE IF x.k = "inf" THEN (IF y.k = "inf" /\ y.s # x.s THEN NaN ELSE x)
    ELSE IF y.k = "inf" THEN y
    ELSE IF IsZero(x) /\ IsZero(y) THEN Zero(IF x.s = 1 /\ y.s = 1 THEN 1 ELSE 0)
    ELSE IF IsZero(x) THEN y
    ELSE IF IsZero(y) THEN x
    ELSE LET e == IF x.e < y.e THEN x.e ELSE y.e
         IN  Strict2(LAMBDA A, B :
                         IF x.s = y.s THEN FRound(x.s, BAdd(A, B), FALSE, e)
                         ELSE IF BCmp(A, B) = 0 THEN Zero(0)
                         ELSE IF BCmp(A, B) > 0 THEN FRound(x.s, BSub(A, B), FALSE, e)
                         ELSE FRound(y.s, BSub(B, A), FALSE, e),
                     BShl(x.m, x.e - e), BShl(y.m, y.e - e))

FAdd(x, y) == Strict2(FAddV, x, y)

FSub(x, y) == Strict2(LAMBDA v, w : FAddV(v, FNeg(w)), x, y)

\* the double a decimal literal n/d denotes (d a power of ten)
Dec(n, d) == IF n = 0 THEN Zero(0) ELSE FRatio(0, BFromInt(n), BFromInt(d), 0)

FGeZero(x) == (x.k = "inf" /\ x.s = 0) \/ (x.k = "fin" /\ (x.s = 0 \/ x.m = <<>>))
FPositive(x) == (x.k = "inf" /\ x.s = 0) \/ (x.k = "fin" /\ x.s = 0 /\ x.m # <<>>)
FLeq(x, y) == Strict(FGeZero, FSub(y, x))

\* round(x, p) of a finite double, as the natural number |round(x, p)| * 10^p
RoundDecV(x, p) ==
    IF x.e >= 0 THEN BShl(BMul(x.m, BPow10(p)), x.e)
    ELSE BRoundShr(BMul(x.m, BPow10(p)), -x.e, FALSE)

RoundDec(x, p) == Strict(LAMBDA v : RoundDecV(v, p), x)

\* ---------------------------------------------------------------------------
\* pandas / Python helpers used by the two functions
\* ---------------------------------------------------------------------------
None == [k |-> "none"]

\* Series.map(dict): the mapped value, NaN for a key the dict does not have
\* variant: a key the table lacks priced by the table's "Barley" entry
MapDict_fallback(d, key) ==
    IF key \in DOMAIN d THEN d[key]
    ELSE IF "Barley" \in DOMAIN d THEN d["Barley"] ELSE NaN

MapDict(d, key) == IF key \in DOMAIN d THEN d[key] ELSE NaN

\* Series.sum() with skipna: NaN entries count as 0.0, accumulation from 0.0 in
\* row order (numpy adds fewer than 8 elements one after the other)
\* variant: the entries subtracted from the running total
RECURSIVE SumTo_minus(_, _)
SumTo_minus(col, n) ==
    IF n = 0 THEN Zero(0)
    ELSE FSub(SumTo_minus(col, n - 1), IF IsNaN(col[n]) THEN Zero(0) ELSE col[n])

RECURSIVE SumTo(_, _)
SumTo(col, n) ==
    IF n = 0 THEN Zero(0)
    ELSE FAdd(SumTo(col, n - 1), IF IsNaN(col[n]) THEN Zero(0) ELSE col[n])

\* variant: the total taken without the last entry
SumSkipNa_but_last(col) == Strict(LAMBDA v : SumTo(v, Len(v) - 1), col)

SumSkipNa(col) == Strict(LAMBDA v : SumTo(v, Len(v)), col)

\* round(x, 2): the double nearest to x rounded to two decimals
Round2V(x) ==
    IF x.k # "fin" \/ x.m = <<>> THEN x
    ELSE Strict(LAMBDA c : IF c = <<>> THEN Zero(x.s) ELSE FRatio(x.s, c, BFromInt(100), 0),
                RoundDecV(x, 2))

Round2(x) == Strict(Round2V, x)

\* the first key of keys (pairs <<dict, key>>) that its dict lacks, or "" if none
RECURSIVE FirstMissingFrom(_, _)
FirstMissingFrom(keys, i) ==
    IF i > Len(keys) THEN ""
    ELSE IF keys[i][2] \notin DOMAIN keys[i][1] THEN keys[i][2]
    ELSE FirstMissingFrom(keys, i + 1)

FirstMissing(keys) == FirstMissingFrom(keys, 1)

Column(df, c) == [i \in 1..Len(df) |-> df[i][c]]

\* ---------------------------------------------------------------------------
\* Inputs
\* ---------------------------------------------------------------------------
MaxLines == 2
MaxCalls == 2

milk_prices_example ==
    [milk_other_solids_production_perc |-> Dec(57, 10),
     milk_fat_dollar_kg |-> Dec(133, 10),
     milk_protein_dollar_kg |-> Dec(1096, 100),
     other_solids_dollar_kg |-> Dec(9, 10)]

ingredient_prices_example ==
    [n \in {"Wheat straw, Elora", "Alfalfa Silage", "Corn silage, Elora", "Corn Grain HM",
            "Soy Plus", "Soybean meal 47%", "Canola", "Wheat Shorts", "Tallow",
            "Sodium chloride (salt)", "Limestone calcium carbonate",
            "Monocalcium phosphate(Dical)", "Magnesium oxide, Elora", "Diamond V yeast",
            "DCAD+ (Potassium carbonate)", "Metasmart", "Vitamin/mineral mix"} |->
        FromInt(CASE n = "Wheat straw, Elora" -> 200
                  [] n = "Alfalfa Silage" -> 230
                  [] n = "Corn silage, Elora" -> 180
                  [] n \in {"Corn Grain HM", "Wheat Shorts"} -> 250
                  [] n = "Soy Plus" -> 700
                  [] n \in {"Soybean meal 47%", "Canola"} -> 600
                  [] n = "Tallow" -> 500
                  [] n \in {"Diamond V yeast", "Metasmart", "Vitamin/mineral mix"} -> 2000
                  [] OTHER -> 1000)]

milk_components_example ==
    [MY_kg_d |-> FromInt(31), Milk_Fat_perc |-> Dec(36, 10), Milk_TProt_perc |-> Dec(33, 10)]

Line(name, kg, dm) == [Ingredient |-> name, kg_inclusion |-> kg, DM_perc |-> dm]

ration_list ==
    << Line("Wheat straw, Elora", Dec(5, 10), FromInt(90)),
       Line("Alfalfa Silage", Dec(82, 10), FromInt(35)),
       Line("Corn silage, Elora", Dec(82, 10), FromInt(33)),
       Line("Corn Grain HM", Dec(37, 10), FromInt(87)),
       Line("Soybean meal 47%", Dec(20, 10), FromInt(88)),
       Line("Canola", Dec(10, 10), FromInt(91)),
       Line("Vitamin/mineral mix", Dec(2, 10), FromInt(100)) >>

\* a second price catalog, a second price table (keyed by the feed names of
\* diet_info) and further milk records and ration lines for the bounded runs
milk_prices_alt ==
    [milk_other_solids_production_perc |-> FromInt(5),
     milk_fat_dollar_kg |-> FromInt(12),
     milk_protein_dollar_kg |-> Dec(105, 10),
     other_solids_dollar_kg |-> FromInt(0)]

ingredient_prices_alt ==
    ("Wheat straw" :> FromInt(200)) @@ ("Corn silage" :> FromInt(180))

milk_components_target ==
    [MY_kg_d |-> Dec(25062, 1000), Milk_Fat_perc |-> Dec(455, 100),
     Milk_TProt_perc |-> Dec(366, 100)]

milk_components_dry ==
    [MY_kg_d |-> FromInt(0), Milk_Fat_perc |-> Dec(36, 10), Milk_TProt_perc |-> Dec(33, 10)]

\* dicts that lack a required key
milk_prices_no_other ==
    [milk_other_solids_production_perc |-> Dec(57, 10),
     milk_fat_dollar_kg |-> Dec(133, 10),
     milk_protein_dollar_kg |-> Dec(1096, 100)]

milk_components_no_prot == [MY_kg_d |-> FromInt(31), Milk_Fat_perc |-> Dec(36, 10)]

MilkPrices == {milk_prices_example, milk_prices_alt, milk_prices_no_other}
MilkComponents == {milk_components_example, milk_components_target, milk_components_dry,
                   milk_components_no_prot}
PriceTables == {ingredient_prices_example, ingredient_prices_alt}
LineChoices == {ration_list[2], ration_list[6], Line("Wheat straw", Dec(5, 10), FromInt(90))}

SeqsUpTo(S, n) == UNION {[1..k -> S] : k \in 1..n}

Rations == SeqsUpTo(LineChoices, MaxLines) \cup {ration_list}

ManualArgs ==
    [milk_prices : MilkPrices, milk_components : MilkComponents,
     ingredient_prices : PriceTables, ration_df : Rations, verbose : BOOLEAN]

\* nd.ModelOutput: the values get_value() serves and Intakes['diet_info']
DietRow(name, dm, dmin) ==
    [Feedstuff |-> name, Fd_DMInp |-> None, Fd_DM |-> dm, Fd_DMIn |-> dmin]

DietRows == {DietRow("Alfalfa Silage", FromInt(35), Dec(82, 10)),
             DietRow("Canola", FromInt(91), Dec(10, 10)),
             DietRow("Wheat straw", FromInt(90), Dec(5, 10))}

ModelValues ==
    {[Mlk_Fat_g |-> Dec(1070676, 1000), Mlk_NP_g |-> Dec(981453, 1000),
      Mlk_Prod |-> Dec(29741, 1000)],
     [Mlk_Fat_g |-> FromInt(0), Mlk_NP_g |-> FromInt(900), Mlk_Prod |-> FromInt(25)]}

ModelOutputs == [values : ModelValues, diet_info : SeqsUpTo(DietRows, MaxLines)]

NdArgs == [milk_prices : MilkPrices, ingredient_prices : PriceTables,
           mod_output : ModelOutputs]

\* ---------------------------------------------------------------------------
\* State
\* ---------------------------------------------------------------------------
VARIABLES
    ingredient_prices_asfed_tonne,  \* the module-level price table of the notebook
    pc,                             \* position inside the running function, or "idle"
    fn,                             \* the function of the current / last call
    args,                           \* the arguments of the current / last call
    kg_d,                           \* milk_fat_kg_d, milk_TP_kg_d, milk_other_kg_d
    dollar_d,                       \* the three revenue terms
    revenue_dollar_per_d,
    ration_local,                   \* the function's own ration_df / diet_sub after assign
    diet_cost_p_d,
    stdout,                         \* what the call has printed
    outcome,                        \* return value or raised error of the call
    calls                           \* the completed calls of the session, oldest first

vars == <<ingredient_prices_asfed_tonne, pc, fn, args, kg_d, dollar_d, revenue_dollar_per_d,
          ration_local, diet_cost_p_d, stdout, outcome, calls>>

locals == <<kg_d, dollar_d, revenue_dollar_per_d, ration_local, diet_cost_p_d>>

Init ==
    /\ ingredient_prices_asfed_tonne \in PriceTables
    /\ pc = "idle"
    /\ fn = "none"
    /\ args = None
    /\ kg_d = None
    /\ dollar_d = None
    /\ revenue_dollar_per_d = None
    /\ ration_local = None
    /\ diet_cost_p_d = None
    /\ stdout = <<>>
    /\ outcome = None
    /\ calls = <<>>

Returned(v) == [kind |-> "return", value |-> v]
ValueError(unmatched) == [kind |-> "ValueError", unmatched |-> unmatched]
\* variant: a lookup error that does not say which key was missing
KeyError_unnamed(key) == [kind |-> "KeyError", key |-> ""]

KeyError(key) == [kind |-> "KeyError", key |-> key]

\* the call ends: its outcome is what the caller sees, and the session records
\* the call with the module-level table it ran under
Finish(o, out) ==
    /\ pc' = "idle"
    /\ outcome' = o
    /\ stdout' = out
    /\ calls' = Append(calls, [fn |-> fn, args |-> args,
                               table |-> ingredient_prices_asfed_tonne,
                               outcome |-> o, stdout |-> out])

\* re-running the cell that defines ingredient_prices_asfed_tonne with edited prices
DefinePrices ==
    /\ pc = "idle"
    /\ \E t \in PriceTables \ {ingredient_prices_asfed_tonne} :
           ingredient_prices_asfed_tonne' = t
    /\ UNCHANGED <<pc, fn, args, locals, stdout, outcome, calls>>

\* a cell calls calc_IOFC_manual; a later cell of the session calls it again on
\* the same inputs, with either verbose setting
CallManual ==
    /\ pc = "idle"
    /\ Len(calls) < MaxCalls
    /\ IF calls = <<>>
       THEN \E a \in ManualArgs : args' = a
       ELSE /\ calls[1].fn = "manual"
            /\ \E v \in BOOLEAN : args' = [calls[1].args EXCEPT !.verbose = v]
    /\ fn' = "manual"
    /\ pc' = "validate"
    /\ kg_d' = None /\ dollar_d' = None /\ revenue_dollar_per_d' = None
    /\ ration_local' = None /\ diet_cost_p_d' = None
    /\ stdout' = <<>>
    /\ outcome' = None
    /\ UNCHANGED <<ingredient_prices_asfed_tonne, calls>>

\* ---------------------------------------------------------------------------
\* calc_IOFC_manual
\* ---------------------------------------------------------------------------
\* ration_df['Ingredient'].apply(lambda x: x in ingredient_prices_asfed_tonne):
\* the lambda reads the module-level table, whatever table was passed
ingredient_validation(df) ==
    [i \in 1..Len(df) |-> df[i].Ingredient \in DOMAIN ingredient_prices_asfed_tonne]

unmatched_ingredients(df) ==
    LET ok == ingredient_validation(df)
        RECURSIVE Pick(_)
        Pick(i) == IF i = 0 THEN <<>>
                   ELSE IF ok[i] THEN Pick(i - 1) ELSE Append(Pick(i - 1), df[i].Ingredient)
    IN  Pick(Len(df))

Validate ==
    /\ pc = "validate"
    /\ IF \E i \in 1..Len(args.ration_df) : ~ingredient_validation(args.ration_df)[i]
       THEN Finish(ValueError(unmatched_ingredients(args.ration_df)), stdout)
       ELSE pc' = "components" /\ UNCHANGED <<outcome, stdout, calls>>
    /\ UNCHANGED <<ingredient_prices_asfed_tonne, fn, args, locals>>

Hundred == FromInt(100)
Thousand == FromInt(1000)

component_kg_d(mp, mc) ==
    [milk_fat_kg_d   |-> FMul(FDiv(mc.Milk_Fat_perc, Hundred), mc.MY_kg_d),
     milk_TP_kg_d    |-> FMul(FDiv(mc.Milk_TProt_perc, Hundred), mc.MY_kg_d),
     milk_other_kg_d |-> FMul(FDiv(mp.milk_other_solids_production_perc, Hundred), mc.MY_kg_d)]

ComponentProduction ==
    /\ pc = "components"
    /\ LET mp == args.milk_prices
           mc == args.milk_components
           missing == FirstMissing(<< <<mc, "MY_kg_d">>, <<mc, "Milk_Fat_perc">>,
                                      <<mc, "Milk_TProt_perc">>,
                                      <<mp, "milk_other_solids_production_perc">> >>)
       IN  IF missing # ""
           THEN Finish(KeyError(missing), stdout) /\ UNCHANGED kg_d
           ELSE \E kg \in {component_kg_d(mp, mc)} :
                /\ kg_d' = kg
                /\ stdout' = IF args.verbose
                             THEN Append(stdout, <<"kg/d", Round2(kg.milk_fat_kg_d),
                                           Round2(kg.milk_TP_kg_d), Round2(kg.milk_other_kg_d)>>)
                             ELSE stdout
                /\ pc' = "revenue"
                /\ UNCHANGED <<outcome, calls>>
    /\ UNCHANGED <<ingredient_prices_asfed_tonne, fn, args, dollar_d, revenue_dollar_per_d,
                   ration_local, diet_cost_p_d>>

\* variant: other solids paid at the protein price
component_dollar_d_protein_price(mp, kg) ==
    [milk_fat_dollar_d     |-> FMul(kg.milk_fat_kg_d, mp.milk_fat_dollar_kg),
     milk_protein_dollar_d |-> FMul(kg.milk_TP_kg_d, mp.milk_protein_dollar_kg),
     milk_other_dollar_d   |-> FMul(kg.milk_other_kg_d, mp.milk_protein_dollar_kg)]

component_dollar_d(mp, kg) ==
    [milk_fat_dollar_d     |-> FMul(kg.milk_fat_kg_d, mp.milk_fat_dollar_kg),
     milk_protein_dollar_d |-> FMul(kg.milk_TP_kg_d, mp.milk_protein_dollar_kg),
     milk_other_dollar_d   |-> FMul(kg.milk_other_kg_d, mp.other_solids_dollar_kg)]

Revenue ==
    /\ pc = "revenue"
    /\ LET mp == args.milk_prices
           missing == FirstMissing(<< <<mp, "milk_fat_dollar_kg">>,
                                      <<mp, "milk_protein_dollar_kg">>,
                                      <<mp, "other_solids_dollar_kg">> >>)
       IN  IF missing # ""
           THEN Finish(KeyError(missing), stdout)
                /\ UNCHANGED <<dollar_d, revenue_dollar_per_d>>
           ELSE \E d \in {component_dollar_d(mp, kg_d)} :
                \E rev \in {FAdd(FAdd(d.milk_fat_dollar_d, d.milk_protein_dollar_d),
                                 d.milk_other_dollar_d)} :
                /\ dollar_d' = d
                /\ revenue_dollar_per_d' = rev
                /\ stdout' = IF args.verbose
                             THEN stdout \o
                                  << <<"dollar/d", Round2(d.milk_fat_dollar_d),
                                       Round2(d.milk_protein_dollar_d),
                                       Round2(d.milk_other_dollar_d)>>,
                                     <<"Revenue $/d", Round2(rev)>> >>
                             ELSE stdout
                /\ pc' = "feedcosts"
                /\ UNCHANGED <<outcome, calls>>
    /\ UNCHANGED <<ingredient_prices_asfed_tonne, fn, args, kg_d, ration_local, diet_cost_p_d>>

\* ration_df.assign(price_asfed_t, price_DM_t, price_DM_kg, daily_cost), row by row
\* variant: the division by 1000 made after the multiplication by kg_inclusion
AssignRow_late_division(row, ingredient_prices) ==
    Strict(LAMBDA price_asfed_t :
      Strict(LAMBDA price_DM_t :
        [Ingredient |-> row.Ingredient, kg_inclusion |-> row.kg_inclusion,
         DM_perc |-> row.DM_perc, price_asfed_t |-> price_asfed_t,
         price_DM_t |-> price_DM_t, price_DM_kg |-> FDiv(price_DM_t, Thousand),
         daily_cost |-> FDiv(FMul(row.kg_inclusion, price_DM_t), Thousand)],
        FMul(FDiv(price_asfed_t, row.DM_perc), Hundred)),
      MapDict(ingredient_prices, row.Ingredient))

AssignRow(row, ingredient_prices) ==
    Strict(LAMBDA price_asfed_t :
      Strict(LAMBDA price_DM_t :
        Strict(LAMBDA price_DM_kg :
          [Ingredient |-> row.Ingredient, kg_inclusion |-> row.kg_inclusion,
           DM_perc |-> row.DM_perc, price_asfed_t |-> price_asfed_t,
           price_DM_t |-> price_DM_t, price_DM_kg |-> price_DM_kg,
           daily_cost |-> FMul(row.kg_inclusion, price_DM_kg)],
          FDiv(price_DM_t, Thousand)),
        FMul(FDiv(price_asfed_t, row.DM_perc), Hundred)),
      MapDict(ingredient_prices, row.Ingredient))

\* variant: one dry-matter percentage (the first line's) applied to every line
AssignCosts_one_DM(df, ingredient_prices) ==
    [i \in 1..Len(df) |-> AssignRow([df[i] EXCEPT !.DM_perc = df[1].DM_perc], ingredient_prices)]

\* variant: lines repeating an earlier line's Ingredient dropped before costing
RECURSIVE DropRepeated(_, _)
DropRepeated(df, n) ==
    IF n = 0 THEN <<>>
    ELSE IF \E j \in 1..(n - 1) : df[j].Ingredient = df[n].Ingredient
         THEN DropRepeated(df, n - 1)
         ELSE Append(DropRepeated(df, n - 1), df[n])

AssignCosts_deduplicated(df, ingredient_prices) ==
    [i \in 1..Len(DropRepeated(df, Len(df))) |->
        AssignRow(DropRepeated(df, Len(df))[i], ingredient_prices)]

AssignCosts(df, ingredient_prices) ==
    [i \in 1..Len(df) |-> AssignRow(df[i], ingredient_prices)]

\* variant: the new columns written into the caller's ration_df
FeedCosts_in_place ==
    /\ pc = "feedcosts"
    /\ \E df \in {AssignCosts(args.ration_df, args.ingredient_prices)} :
       \E cost \in {SumSkipNa(Column(df, "daily_cost"))} :
           /\ ration_local' = df
           /\ args' = [args EXCEPT !.ration_df = df]
           /\ diet_cost_p_d' = cost
           /\ stdout' = IF args.verbose
                        THEN stdout \o << <<"ration_df", df>>,
                                          <<"Diet cost ($/d)", Round2(cost)>> >>
                        ELSE stdout
    /\ pc' = "iofc"
    /\ UNCHANGED <<ingredient_prices_asfed_tonne, fn, kg_d, dollar_d,
                   revenue_dollar_per_d, outcome, calls>>

FeedCosts ==
    /\ pc = "feedcosts"
    /\ \E df \in {AssignCosts(args.ration_df, args.ingredient_prices)} :
       \E cost \in {SumSkipNa(Column(df, "daily_cost"))} :
           /\ ration_local' = df
           /\ diet_cost_p_d' = cost
           /\ stdout' = IF args.verbose
                        THEN stdout \o << <<"ration_df", df>>,
                                          <<"Diet cost ($/d)", Round2(cost)>> >>
                        ELSE stdout
    /\ pc' = "iofc"
    /\ UNCHANGED <<ingredient_prices_asfed_tonne, fn, args, kg_d, dollar_d,
                   revenue_dollar_per_d, outcome, calls>>

\* variant: feed cost added to the revenue
IOFC_plus(revenue, diet_cost) == FAdd(revenue, diet_cost)

IOFC(revenue, diet_cost) == FSub(revenue, diet_cost)

\* variant: the value rounded for the verbose print is the one returned
ReturnIOFC_rounded ==
    /\ pc = "iofc"
    /\ \E v \in {IOFC(revenue_dollar_per_d, diet_cost_p_d)} :
           IF args.verbose
           THEN Finish(Returned(Round2(v)), Append(stdout, <<"IOFC ($/d)", Round2(v)>>))
           ELSE Finish(Returned(v), stdout)
    /\ UNCHANGED <<ingredient_prices_asfed_tonne, fn, args, locals>>

ReturnIOFC ==
    /\ pc = "iofc"
    /\ \E v \in {IOFC(revenue_dollar_per_d, diet_cost_p_d)} :
           Finish(Returned(v),
                  IF args.verbose THEN Append(stdout, <<"IOFC ($/d)", Round2(v)>>)
                  ELSE stdout)
    /\ UNCHANGED <<ingredient_prices_asfed_tonne, fn, args, locals>>

\* ---------------------------------------------------------------------------
\* calc_IOFC_nd
\* ---------------------------------------------------------------------------
CallNd ==
    /\ pc = "idle"
    /\ Len(calls) < MaxCalls
    /\ IF calls = <<>>
       THEN \E a \in NdArgs : args' = a
       ELSE calls[1].fn = "nd" /\ args' = calls[1].args
    /\ fn' = "nd"
    /\ pc' = "nd_revenue"
    /\ kg_d' = None /\ dollar_d' = None /\ revenue_dollar_per_d' = None
    /\ ration_local' = None /\ diet_cost_p_d' = None
    /\ stdout' = <<>>
    /\ outcome' = None
    /\ UNCHANGED <<ingredient_prices_asfed_tonne, calls>>

\* variant: the gram outputs priced without the division by 1000
nd_price_p_d_grams(mp, out) ==
    [milk_fat_price_p_d     |-> FMul(out.Mlk_Fat_g, mp.milk_fat_dollar_kg),
     milk_protein_price_p_d |-> FMul(out.Mlk_NP_g, mp.milk_protein_dollar_kg),
     milk_other_solids_price_p_d |->
         FMul(FMul(FDiv(mp.milk_other_solids_production_perc, Hundred), out.Mlk_Prod),
              mp.other_solids_dollar_kg)]

nd_price_p_d(mp, out) ==
    [milk_fat_price_p_d     |-> FMul(FDiv(out.Mlk_Fat_g, Thousand), mp.milk_fat_dollar_kg),
     milk_protein_price_p_d |-> FMul(FDiv(out.Mlk_NP_g, Thousand), mp.milk_protein_dollar_kg),
     milk_other_solids_price_p_d |->
         FMul(FMul(FDiv(mp.milk_other_solids_production_perc, Hundred), out.Mlk_Prod),
              mp.other_solids_dollar_kg)]

NdRevenue ==
    /\ pc = "nd_revenue"
    /\ LET mp == args.milk_prices
           missing == FirstMissing(<< <<mp, "milk_fat_dollar_kg">>,
                                      <<mp, "milk_protein_dollar_kg">>,
                                      <<mp, "milk_other_solids_production_perc">>,
                                      <<mp, "other_solids_dollar_kg">> >>)
       IN  IF missing # ""
           THEN Finish(KeyError(missing), stdout)
                /\ UNCHANGED <<dollar_d, revenue_dollar_per_d>>
           ELSE \E d \in {nd_price_p_d(mp, args.mod_output.values)} :
                /\ dollar_d' = d
                /\ revenue_dollar_per_d' =
                       FAdd(FAdd(d.milk_fat_price_p_d, d.milk_protein_price_p_d),
                            d.milk_other_solids_price_p_d)
                /\ pc' = "nd_feedcosts"
                /\ UNCHANGED <<outcome, stdout, calls>>
    /\ UNCHANGED <<ingredient_prices_asfed_tonne, fn, args, kg_d, ration_local, diet_cost_p_d>>

\* diet_info.filter([...]).assign(dollar_t_as_fed, dollar_t_DM, dollar_fed_p_d)
\* variant: the as-fed price used without the dry-matter conversion
diet_sub_row_as_fed(row, ingredient_prices) ==
    Strict(LAMBDA dollar_t_as_fed :
      [Feedstuff |-> row.Feedstuff, Fd_DMInp |-> row.Fd_DMInp,
       Fd_DM |-> row.Fd_DM, Fd_DMIn |-> row.Fd_DMIn,
       dollar_t_as_fed |-> dollar_t_as_fed, dollar_t_DM |-> dollar_t_as_fed,
       dollar_fed_p_d |-> FMul(FDiv(dollar_t_as_fed, Thousand), row.Fd_DMIn)],
      MapDict(ingredient_prices, row.Feedstuff))

diet_sub_row(row, ingredient_prices) ==
    Strict(LAMBDA dollar_t_as_fed :
      Strict(LAMBDA dollar_t_DM :
        [Feedstuff |-> row.Feedstuff, Fd_DMInp |-> row.Fd_DMInp,
         Fd_DM |-> row.Fd_DM, Fd_DMIn |-> row.Fd_DMIn,
         dollar_t_as_fed |-> dollar_t_as_fed, dollar_t_DM |-> dollar_t_DM,
         dollar_fed_p_d |-> FMul(FDiv(dollar_t_DM, Thousand), row.Fd_DMIn)],
        FMul(FDiv(dollar_t_as_fed, row.Fd_DM), Hundred)),
      MapDict(ingredient_prices, row.Feedstuff))

diet_sub(diet_info, ingredient_prices) ==
    [i \in 1..Len(diet_info) |-> diet_sub_row(diet_info[i], ingredient_prices)]

NdFeedCosts ==
    /\ pc = "nd_feedcosts"
    /\ \E df \in {diet_sub(args.mod_output.diet_info, args.ingredient_prices)} :
           /\ ration_local' = df
           /\ diet_cost_p_d' = SumSkipNa(Column(df, "dollar_fed_p_d"))
    /\ pc' = "nd_iofc"
    /\ UNCHANGED <<ingredient_prices_asfed_tonne, fn, args, kg_d, dollar_d,
                   revenue_dollar_per_d, stdout, outcome, calls>>

nd_IOFC(revenue, diet_cost) == FSub(revenue, diet_cost)

NdReturn ==
    /\ pc = "nd_iofc"
    /\ Finish(Returned(nd_IOFC(revenue_dollar_per_d, diet_cost_p_d)), stdout)
    /\ UNCHANGED <<ingredient_prices_asfed_tonne, fn, args, locals>>

Next ==
    \/ DefinePrices
    \/ CallManual
    \/ Validate
    \/ ComponentProduction
    \/ Revenue
    \/ FeedCosts
    \/ ReturnIOFC
    \/ CallNd
    \/ NdRevenue
    \/ NdFeedCosts
    \/ NdReturn

Spec == Init /\ [][Next]_vars

\* ---------------------------------------------------------------------------
\* A second session: the same functions called on inputs at the edges of their
\* domain (a dict lacking one required key, DM_perc of 0 and of 100, a line
\* repeated in the ration, a price table edited in entries the ration does not use)
\* ---------------------------------------------------------------------------
Without(d, key) == [k \in DOMAIN d \ {key} |-> d[k]]

CatalogFields == {"milk_other_solids_production_perc", "milk_fat_dollar_kg",
                  "milk_protein_dollar_kg", "other_solids_dollar_kg"}
ComponentFields == {"MY_kg_d", "Milk_Fat_perc", "Milk_TProt_perc"}

\* <<milk_prices, milk_components>>: the example pair, and the pair with one key deleted
EdgeMilk ==
    {<<milk_prices_example, milk_components_example>>}
    \cup {<<Without(milk_prices_example, f), milk_components_example>> : f \in CatalogFields}
    \cup {<<milk_prices_example, Without(milk_components_example, f)>> : f \in ComponentFields}

EdgeLines == {ration_list[2],
              Line("Alfalfa Silage", Dec(82, 10), FromInt(100)),
              Line("Canola", Dec(10, 10), FromInt(0)),
              Line("Wheat straw", Dec(5, 10), FromInt(90))}

\* the example table edited where the lines above do not look: most entries
\* removed, the Corn Grain HM price changed, a Barley entry added
ingredient_prices_edited ==
    ("Alfalfa Silage" :> FromInt(230)) @@ ("Canola" :> FromInt(600))
        @@ ("Corn Grain HM" :> FromInt(300)) @@ ("Barley" :> FromInt(280))

EdgeTables == {ingredient_prices_example, ingredient_prices_edited}

EdgeManualArgs ==
    {[milk_prices |-> m[1], milk_components |-> m[2],
      ingredient_prices |-> ingredient_prices_example, ration_df |-> <<l>>, verbose |-> v] :
        m \in EdgeMilk, l \in {ration_list[2], Line("Wheat straw", Dec(5, 10), FromInt(90))},
        v \in BOOLEAN}
    \cup [milk_prices : {milk_prices_example}, milk_components : {milk_components_example},
          ingredient_prices : EdgeTables, ration_df : SeqsUpTo(EdgeLines, MaxLines),
          verbose : BOOLEAN]

EdgeDietRows == {DietRow("Alfalfa Silage", FromInt(35), Dec(82, 10)),
                 DietRow("Alfalfa Silage", FromInt(100), Dec(82, 10)),
                 DietRow("Canola", FromInt(0), Dec(10, 10))}

EdgeNdArgs ==
    {[milk_prices |-> Without(milk_prices_example, f),
      ingredient_prices |-> ingredient_prices_example,
      mod_output |-> [values |-> v, diet_info |-> <<DietRow("Alfalfa Silage", FromInt(35),
                                                             Dec(82, 10))>>]] :
        f \in CatalogFields, v \in ModelValues}
    \cup [milk_prices : {milk_prices_example}, ingredient_prices : {ingredient_prices_example},
          mod_output : [values : ModelValues, diet_info : SeqsUpTo(EdgeDietRows, MaxLines)]]

\* a cell calls calc_IOFC_manual; a later cell calls it again with the same
\* arguments but for the price table, which is either of the two tables
EdgeCallManual ==
    /\ pc = "idle"
    /\ Len(calls) < MaxCalls
    /\ IF calls = <<>>
       THEN \E a \in EdgeManualArgs : args' = a
       ELSE /\ calls[1].fn = "manual"
            /\ \E t \in EdgeTables : args' = [calls[1].args EXCEPT !.ingredient_prices = t]
    /\ fn' = "manual"
    /\ pc' = "validate"
    /\ kg_d' = None /\ dollar_d' = None /\ revenue_dollar_per_d' = None
    /\ ration_local' = None /\ diet_cost_p_d' = None
    /\ stdout' = <<>>
    /\ outcome' = None
    /\ UNCHANGED <<ingredient_prices_asfed_tonne, calls>>

EdgeCallNd ==
    /\ pc = "idle"
    /\ Len(calls) < MaxCalls
    /\ IF calls = <<>>
       THEN \E a \in EdgeNdArgs : args' = a
       ELSE calls[1].fn = "nd" /\ args' = calls[1].args
    /\ fn' = "nd"
    /\ pc' = "nd_revenue"
    /\ kg_d' = None /\ dollar_d' = None /\ revenue_dollar_per_d' = None
    /\ ration_local' = None /\ diet_cost_p_d' = None
    /\ stdout' = <<>>
    /\ outcome' = None
    /\ UNCHANGED <<ingredient_prices_asfed_tonne, calls>>

EdgeNext ==
    \/ DefinePrices
    \/ EdgeCallManual
    \/ Validate
    \/ ComponentProduction
    \/ Revenue
    \/ FeedCosts
    \/ ReturnIOFC
    \/ EdgeCallNd
    \/ NdRevenue
    \/ NdFeedCosts
    \/ NdReturn

SpecEdge == Init /\ [][EdgeNext]_vars

\* ---------------------------------------------------------------------------
\* Sessions that call calc_IOFC_manual on one ration and again on the same
\* lines in another order
\* ---------------------------------------------------------------------------
Perms(n) == {p \in [1..n -> 1..n] : \A i \in 1..n : \A j \in 1..n : p[i] = p[j] => i = j}
Permute(df, p) == [i \in 1..Len(df) |-> df[p[i]]]

\* lines of the example ration, and a ration naming a feed the example table
\* does not price
PermRations ==
    {SubSeq(ration_list, 2, MaxLines + 2),
     SubSeq(ration_list, 2, MaxLines + 1),
     <<Line("Wheat straw", Dec(5, 10), FromInt(90))>> \o SubSeq(ration_list, 2, MaxLines + 1)}

PermCallManual ==
    /\ pc = "idle"
    /\ Len(calls) < MaxCalls
    /\ IF calls = <<>>
       THEN \E df \in PermRations : \E v \in BOOLEAN :
                args' = [milk_prices |-> milk_prices_example,
                         milk_components |-> milk_components_example,
                         ingredient_prices |-> ingredient_prices_example,
                         ration_df |-> df, verbose |-> v]
       ELSE \E p \in Perms(Len(calls[1].args.ration_df)) :
                args' = [calls[1].args EXCEPT !.ration_df = Permute(calls[1].args.ration_df, p)]
    /\ fn' = "manual"
    /\ pc' = "validate"
    /\ kg_d' = None /\ dollar_d' = None /\ revenue_dollar_per_d' = None
    /\ ration_local' = None /\ diet_cost_p_d' = None
    /\ stdout' = <<>>
    /\ outcome' = None
    /\ UNCHANGED <<ingredient_prices_asfed_tonne, calls>>

PermNext ==
    \/ PermCallManual
    \/ Validate
    \/ ComponentProduction
    \/ Revenue
    \/ FeedCosts
    \/ ReturnIOFC

SpecPerm == Init /\ [][PermNext]_vars

\* ---------------------------------------------------------------------------
\* Properties
\* ---------------------------------------------------------------------------
Done == pc = "idle" /\ outcome # None
Names(df) == {df[i].Ingredient : i \in 1..Len(df)}
Feedstuffs(df) == {df[i].Feedstuff : i \in 1..Len(df)}
Range(f) == {f[i] : i \in DOMAIN f}

\* C1: whenever calc_IOFC_manual or calc_IOFC_nd returns, the value returned is
\* the revenue of that invocation minus its total feed cost, and nothing else.
Theorem_C1 ==
    (Done /\ outcome.kind = "return") =>
        outcome.value = FSub(revenue_dollar_per_d, diet_cost_p_d)

Witness_C1 ==
    /\ Done /\ fn = "manual" /\ outcome.kind = "return"
    /\ FPositive(revenue_dollar_per_d) /\ FPositive(diet_cost_p_d)

\* C2: calc_IOFC_manual fails, returning no IOFC, when some ration line's
\* Ingredient is not a key of the ingredient_prices argument, and its validation
\* does not fail when every Ingredient is a key of that argument.
Original_C2 ==
    (Done /\ fn = "manual") =>
        /\ ~(Names(args.ration_df) \subseteq DOMAIN args.ingredient_prices)
               => outcome.kind # "return"
        /\ Names(args.ration_df) \subseteq DOMAIN args.ingredient_prices
               => outcome.kind # "ValueError"

\* C3: when calc_IOFC_manual fails for missing price mappings, the identifiers
\* the error reports are exactly the ration's identifiers that are not keys of
\* the ingredient_prices argument.
Original_C3 ==
    (Done /\ fn = "manual" /\ outcome.kind = "ValueError") =>
        Range(outcome.unmatched) = Names(args.ration_df) \ DOMAIN args.ingredient_prices

\* C4: calc_IOFC_nd fails when a diet row's Feedstuff is not a key of the
\* ingredient price table; it never returns an IOFC in which an unpriced
\* ingredient was skipped or counted as zero.
Original_C4 ==
    (Done /\ fn = "nd"
          /\ ~(Feedstuffs(args.mod_output.diet_info) \subseteq DOMAIN args.ingredient_prices))
        => outcome.kind # "return"

\* C5: two invocations of calc_IOFC_manual with identical arguments have the
\* identical outcome, whatever the variables outside the call (the module-level
\* price table included) hold.
Original_C5 ==
    \A i, j \in 1..Len(calls) :
        (calls[i].fn = "manual" /\ calls[j].fn = "manual" /\ calls[i].args = calls[j].args)
            => calls[i].outcome = calls[j].outcome

\* C6: the outcome of calc_IOFC_manual with verbose=True equals the outcome with
\* verbose=False on the same inputs in the same session state; verbose=False
\* prints nothing.
Theorem_C6 ==
    \A i, j \in 1..Len(calls) :
        (/\ calls[i].fn = "manual" /\ calls[j].fn = "manual"
         /\ [calls[i].args EXCEPT !.verbose = TRUE] = [calls[j].args EXCEPT !.verbose = TRUE]
         /\ calls[i].table = calls[j].table)
            => /\ calls[i].outcome = calls[j].outcome
               /\ ~calls[i].args.verbose => calls[i].stdout = <<>>

Witness_C6 ==
    /\ Len(calls) >= 2
    /\ calls[1].fn = "manual" /\ calls[1].args.verbose /\ ~calls[2].args.verbose
    /\ calls[1].table = calls[2].table
    /\ calls[1].outcome.kind = "return" /\ calls[1].stdout # <<>>

\* C7: the revenue of calc_IOFC_manual is (MY_kg_d * Milk_Fat_perc/100) * fat price
\* + (MY_kg_d * Milk_TProt_perc/100) * protein price + (MY_kg_d * other solids
\* perc/100) * other solids price, the other-solids percentage being the one of
\* milk_prices.
Theorem_C7 ==
    (fn = "manual" /\ revenue_dollar_per_d # None) =>
        LET mp == args.milk_prices
            mc == args.milk_components
        IN  revenue_dollar_per_d =
              FAdd(FAdd(FMul(FMul(mc.MY_kg_d, FDiv(mc.Milk_Fat_perc, FromInt(100))),
                             mp.milk_fat_dollar_kg),
                        FMul(FMul(mc.MY_kg_d, FDiv(mc.Milk_TProt_perc, FromInt(100))),
                             mp.milk_protein_dollar_kg)),
                   FMul(FMul(mc.MY_kg_d,
                             FDiv(mp.milk_other_solids_production_perc, FromInt(100))),
                        mp.other_solids_dollar_kg))

Witness_C7 ==
    /\ fn = "manual" /\ revenue_dollar_per_d # None
    /\ FPositive(dollar_d.milk_fat_dollar_d) /\ FPositive(dollar_d.milk_protein_dollar_d)
    /\ FPositive(dollar_d.milk_other_dollar_d)
    /\ args.milk_prices.milk_protein_dollar_kg # args.milk_prices.other_solids_dollar_kg

\* the feed cost of the first n lines: each line's as-fed price put on a DM
\* basis with the line's own DM_perc, per kg, times the line's kg_inclusion
RECURSIVE FeedCostOfLines(_, _, _)
FeedCostOfLines(df, prices, n) ==
    IF n = 0 THEN Zero(0)
    ELSE Strict2(FAdd, FeedCostOfLines(df, prices, n - 1),
                 Strict(LAMBDA price_DM_t :
                          Strict(LAMBDA price_DM_kg : FMul(df[n].kg_inclusion, price_DM_kg),
                                 FDiv(price_DM_t, FromInt(1000))),
                        FMul(FDiv(prices[df[n].Ingredient], df[n].DM_perc), FromInt(100))))

\* C8: the total feed cost of calc_IOFC_manual is the sum over the ration lines
\* of kg_inclusion * (price_asfed / DM_perc * 100) / 1000, the conversion being
\* made with each line's own DM_perc and price.
Theorem_C8 ==
    (/\ fn = "manual" /\ diet_cost_p_d # None
     /\ Names(args.ration_df) \subseteq DOMAIN args.ingredient_prices)
        => \A feed_cost \in {FeedCostOfLines(args.ration_df, args.ingredient_prices,
                                               Len(args.ration_df))} :
               diet_cost_p_d = feed_cost

Witness_C8 ==
    /\ fn = "manual" /\ diet_cost_p_d # None
    /\ Names(args.ration_df) \subseteq DOMAIN args.ingredient_prices
    /\ Len(args.ration_df) = 2
    /\ args.ration_df[1].DM_perc # args.ration_df[2].DM_perc

\* the documented example call has completed: the example catalog, milk record,
\* seven-line ration and price table, the table being also the module-level one
\* during the call
ExampleCall ==
    /\ Done /\ fn = "manual"
    /\ args.milk_prices = milk_prices_example
    /\ args.milk_components = milk_components_example
    /\ args.ingredient_prices = ingredient_prices_example
    /\ args.ration_df = ration_list
    /\ calls[Len(calls)].table = ingredient_prices_example

ExampleDailyCosts == <<1111, 53886, 44727, 10632, 13636, 6593, 4000>>

\* C9: on the documented example inputs calc_IOFC_manual returns
\* 14.186574773808571, with revenue 27.65 and diet cost 13.46 rounded to cents
\* and per-line daily costs 0.1111, 5.3886, 4.4727, 1.0632, 1.3636, 0.6593, 0.4000.
Theorem_C9 ==
    ExampleCall =>
        /\ outcome = Returned(FRatio(0, BFromDigits(<<1, 4, 1, 8, 6, 5, 7, 4, 7, 7, 3, 8, 0,
                                                     8, 5, 7, 1>>), BPow10(15), 0))
        /\ Round2(revenue_dollar_per_d) = Dec(2765, 100)
        /\ Round2(diet_cost_p_d) = Dec(1346, 100)
        /\ \A i \in 1..7 :
               RoundDec(ration_local[i].daily_cost, 4) = BFromInt(ExampleDailyCosts[i])
        /\ args.verbose =>
               /\ stdout[3] = <<"Revenue $/d", Dec(2765, 100)>>
               /\ stdout[5] = <<"Diet cost ($/d)", Dec(1346, 100)>>
               /\ stdout[6] = <<"IOFC ($/d)", Dec(1419, 100)>>

Witness_C9 == ExampleCall /\ args.verbose /\ outcome.kind = "return"

NonNegDict(d) == \A key \in DOMAIN d : FGeZero(d[key])

\* the inputs of the current call are non-negative, DM percentages in (0, 100]
NonNegInputs ==
    /\ NonNegDict(args.milk_prices)
    /\ NonNegDict(args.ingredient_prices)
    /\ fn = "manual" =>
          /\ NonNegDict(args.milk_components)
          /\ \A i \in 1..Len(args.ration_df) :
                /\ FGeZero(args.ration_df[i].kg_inclusion)
                /\ FPositive(args.ration_df[i].DM_perc)
                /\ FLeq(args.ration_df[i].DM_perc, FromInt(100))
    /\ fn = "nd" =>
          /\ NonNegDict(args.mod_output.values)
          /\ \A i \in 1..Len(args.mod_output.diet_info) :
                /\ FGeZero(args.mod_output.diet_info[i].Fd_DMIn)
                /\ FPositive(args.mod_output.diet_info[i].Fd_DM)
                /\ FLeq(args.mod_output.diet_info[i].Fd_DM, FromInt(100))

\* C10: in both calculators, non-negative inputs with every DM percentage in
\* (0, 100] give a revenue >= 0 and a total feed cost >= 0.
Theorem_C10 ==
    (fn # "none" /\ NonNegInputs) =>
        /\ revenue_dollar_per_d # None => FGeZero(revenue_dollar_per_d)
        /\ diet_cost_p_d # None => FGeZero(diet_cost_p_d)

Witness_C10 ==
    /\ fn = "nd" /\ Done /\ NonNegInputs
    /\ FPositive(revenue_dollar_per_d) /\ FPositive(diet_cost_p_d)

\* some line of the current call's ration (diet table) has a DM percentage <= 0
NonPositiveDM ==
    \/ fn = "manual" /\ \E i \in 1..Len(args.ration_df) :
                            FLeq(args.ration_df[i].DM_perc, Zero(0))
    \/ fn = "nd" /\ \E i \in 1..Len(args.mod_output.diet_info) :
                        FLeq(args.mod_output.diet_info[i].Fd_DM, Zero(0))

\* C11: a call whose ration (diet table) has a line with a DM percentage <= 0
\* fails; it never returns an IOFC.
Original_C11 == (Done /\ NonPositiveDM) => outcome.kind # "return"

\* C12: no step of calc_IOFC_manual or calc_IOFC_nd, whether the call ends in a
\* return or in an error, changes the objects the caller passed (price catalog,
\* milk components, price table, ration table, model output) or the
\* module-level price table; the new columns go to the function's own frame.
Theorem_C12 ==
    [][pc # "idle" => /\ args' = args
                      /\ ingredient_prices_asfed_tonne' = ingredient_prices_asfed_tonne]_vars

Witness_C12 ==
    /\ Done /\ fn = "manual" /\ outcome.kind = "return"
    /\ "daily_cost" \in DOMAIN ration_local[1]
    /\ \A i \in 1..Len(args.ration_df) :
           DOMAIN args.ration_df[i] = {"Ingredient", "kg_inclusion", "DM_perc"}

\* C13: the n-th call of calc_IOFC_manual or calc_IOFC_nd with the arguments of
\* the first call has the outcome of the first call (same value returned, or
\* same error raised).
Original_C13 ==
    \A n \in 1..Len(calls) :
        (calls[n].fn = calls[1].fn /\ calls[n].args = calls[1].args)
            => calls[n].outcome = calls[1].outcome

\* the revenue calc_IOFC_manual computes from a catalog and a milk record
ManualRevenue(mp, mc) ==
    Strict(LAMBDA d : FAdd(FAdd(d.milk_fat_dollar_d, d.milk_protein_dollar_d),
                           d.milk_other_dollar_d),
           component_dollar_d(mp, component_kg_d(mp, mc)))

\* the milk record that states a model result in percentages of the milk yield
EquivalentComponents(out) ==
    [MY_kg_d |-> out.Mlk_Prod,
     Milk_Fat_perc   |-> FDiv(FMul(FromInt(100), FDiv(out.Mlk_Fat_g, FromInt(1000))),
                              out.Mlk_Prod),
     Milk_TProt_perc |-> FDiv(FMul(FromInt(100), FDiv(out.Mlk_NP_g, FromInt(1000))),
                              out.Mlk_Prod)]

FAbs(x) == [x EXCEPT !.s = 0]

\* |x - y| <= 1e-9 * |x|
Close(x, y) ==
    Strict2(LAMBDA v, w : FLeq(FAbs(FSub(v, w)), FMul(Dec(1, 1000000000), FAbs(v))), x, y)

\* calc_IOFC_nd has computed the revenue of a model result with a positive milk yield
NdRevenueComputed ==
    /\ fn = "nd" /\ revenue_dollar_per_d # None
    /\ FPositive(args.mod_output.values.Mlk_Prod)

\* C14 as stated: the revenue of calc_IOFC_nd for fat F g, protein P g and yield
\* M kg equals the revenue of calc_IOFC_manual for yield M, fat percentage
\* 100*(F/1000)/M and protein percentage 100*(P/1000)/M under the same catalog.
Original_C14 ==
    NdRevenueComputed =>
        \A mc \in {EquivalentComponents(args.mod_output.values)} :
            revenue_dollar_per_d = ManualRevenue(args.milk_prices, mc)

\* C14 amended: the two revenues agree up to the rounding of the binary64
\* operations (relative difference at most 1e-9), and their other-solids terms
\* are the same double.
Theorem_C14 ==
    NdRevenueComputed =>
        \A mc \in {EquivalentComponents(args.mod_output.values)} :
        \A kg \in {component_kg_d(args.milk_prices, mc)} :
            /\ Close(revenue_dollar_per_d, ManualRevenue(args.milk_prices, mc))
            /\ dollar_d.milk_other_solids_price_p_d =
                   component_dollar_d(args.milk_prices, kg).milk_other_dollar_d

Witness_C14 ==
    /\ NdRevenueComputed
    /\ FPositive(dollar_d.milk_fat_price_p_d) /\ FPositive(dollar_d.milk_protein_price_p_d)
    /\ \E mc \in {EquivalentComponents(args.mod_output.values)} :
           revenue_dollar_per_d # ManualRevenue(args.milk_prices, mc)

\* C15: in the frame calc_IOFC_manual computes, a priced line with DM_perc = 100
\* has price_DM_t equal to price_asfed_t and daily cost kg_inclusion *
\* price_asfed_t / 1000, and a line with DM_perc < 100 and a positive price has
\* price_DM_t strictly greater than price_asfed_t.
Original_C15 ==
    (fn = "manual" /\ diet_cost_p_d # None) =>
        \A i \in 1..Len(ration_local) :
            \A row \in {ration_local[i]} :
                /\ (row.DM_perc = FromInt(100) /\ ~IsNaN(row.price_asfed_t)) =>
                       /\ row.price_DM_t = row.price_asfed_t
                       /\ row.daily_cost =
                              FMul(row.kg_inclusion, FDiv(row.price_asfed_t, FromInt(1000)))
                /\ (/\ FPositive(FSub(FromInt(100), row.DM_perc))
                    /\ ~IsNaN(row.price_asfed_t) /\ FPositive(row.price_asfed_t)) =>
                       FPositive(FSub(row.price_DM_t, row.price_asfed_t))

\* the required keys the dicts of the current call lack
MissingFields ==
    (CatalogFields \ DOMAIN args.milk_prices)
        \cup (IF fn = "manual" THEN ComponentFields \ DOMAIN args.milk_components ELSE {})

AgreeOnRation(t1, t2, df) ==
    \A n \in Names(df) :
        /\ (n \in DOMAIN t1) = (n \in DOMAIN t2)
        /\ n \in DOMAIN t1 => t1[n] = t2[n]

\* C17: two calc_IOFC_manual calls that differ only in price-table entries
\* matching no ingredient of the ration (added, removed or re-priced) have the
\* same outcome, returned IOFC or error.
Theorem_C17 ==
    \A i \in 1..Len(calls) : \A j \in 1..Len(calls) :
        ( /\ calls[i].fn = "manual" /\ calls[j].fn = "manual"
          /\ [calls[i].args EXCEPT !.ingredient_prices = <<>>]
                 = [calls[j].args EXCEPT !.ingredient_prices = <<>>]
          /\ AgreeOnRation(calls[i].args.ingredient_prices,
                           calls[j].args.ingredient_prices, calls[i].args.ration_df)
          /\ AgreeOnRation(calls[i].table, calls[j].table, calls[i].args.ration_df) )
        => calls[i].outcome = calls[j].outcome

Witness_C17 ==
    /\ Len(calls) = 2
    /\ calls[1].fn = "manual" /\ calls[2].fn = "manual"
    /\ calls[1].args.ingredient_prices = ingredient_prices_example
    /\ calls[2].args.ingredient_prices = ingredient_prices_edited
    /\ Len(calls[1].args.ration_df) = 2
    /\ AgreeOnRation(ingredient_prices_example, ingredient_prices_edited,
                     calls[1].args.ration_df)
    /\ calls[1].table = calls[2].table
    /\ calls[1].outcome.kind = "return"
    /\ FPositive(calls[1].outcome.value)

\* C18 as stated: a calc_IOFC_manual call whose ration names an ingredient the
\* price table passed to it does not price ends in the missing-price error,
\* before any revenue or cost is computed and before any trace line is printed,
\* whether or not a catalog or milk_components field is missing as well.
Original_C18 ==
    ( /\ fn = "manual" /\ pc # "validate"
      /\ \E n \in Names(args.ration_df) : n \notin DOMAIN args.ingredient_prices )
    => /\ pc = "idle" /\ outcome.kind = "ValueError"
       /\ stdout = <<>>
       /\ kg_d = None /\ revenue_dollar_per_d = None /\ diet_cost_p_d = None

\* the manual ration whose lines equal the rows of a model diet
CorrespondingRation(diet_info) ==
    [i \in 1..Len(diet_info) |->
        Line(diet_info[i].Feedstuff, diet_info[i].Fd_DMIn, diet_info[i].Fd_DM)]

ManualFeedCost(df, prices) == SumSkipNa(Column(AssignCosts(df, prices), "daily_cost"))

\* C19: when every feedstuff of the model diet is priced, the total feed cost
\* calc_IOFC_nd computes equals the total feed cost calc_IOFC_manual computes
\* for the ration whose lines (Ingredient, kg_inclusion, DM_perc) equal the
\* diet rows (Feedstuff, Fd_DMIn, Fd_DM), under the same price table.
Theorem_C19 ==
    ( /\ fn = "nd" /\ diet_cost_p_d # None
      /\ Feedstuffs(args.mod_output.diet_info) \subseteq DOMAIN args.ingredient_prices )
    => \A manual_cost \in {ManualFeedCost(CorrespondingRation(args.mod_output.diet_info),
                                          args.ingredient_prices)} :
           diet_cost_p_d = manual_cost

Witness_C19 ==
    /\ Done /\ fn = "nd" /\ outcome.kind = "return"
    /\ Len(args.mod_output.diet_info) = 2
    /\ args.mod_output.diet_info[1].Fd_DM # args.mod_output.diet_info[2].Fd_DM
    /\ Feedstuffs(args.mod_output.diet_info) \subseteq DOMAIN args.ingredient_prices
    /\ diet_cost_p_d.k = "fin" /\ FPositive(diet_cost_p_d)

\* an Ingredient appearing on more than one line of the ration
HasRepeatedIngredient(df) ==
    \E i \in 1..Len(df) : \E j \in 1..Len(df) : i # j /\ df[i].Ingredient = df[j].Ingredient

\* C20: a calc_IOFC_manual call whose ration repeats an Ingredient is not
\* rejected for the repetition (a missing-price error lists only identifiers
\* the validation does not find; with every identifier found and no field
\* missing the call returns), and the costed ration keeps one row per line,
\* each with the daily cost of its own kg_inclusion and DM_perc, all of them
\* summed into the total.
Theorem_C20 ==
    (fn = "manual" /\ HasRepeatedIngredient(args.ration_df)) =>
        /\ Done =>
             /\ outcome.kind = "ValueError" =>
                   /\ outcome.unmatched # <<>>
                   /\ \A n \in Range(outcome.unmatched) :
                          n \notin DOMAIN calls[Len(calls)].table
             /\ ( /\ Names(args.ration_df) \subseteq DOMAIN calls[Len(calls)].table
                  /\ MissingFields = {} ) => outcome.kind = "return"
        /\ diet_cost_p_d # None =>
             /\ Len(ration_local) = Len(args.ration_df)
             /\ \A i \in 1..Len(args.ration_df) :
                    \A own \in {AssignRow(args.ration_df[i], args.ingredient_prices)} :
                        /\ ration_local[i].Ingredient = args.ration_df[i].Ingredient
                        /\ ration_local[i].daily_cost = own.daily_cost
             /\ \A total \in {SumTo(Column(ration_local, "daily_cost"), Len(args.ration_df))} :
                    Names(args.ration_df) \subseteq DOMAIN args.ingredient_prices
                        => diet_cost_p_d = total

Witness_C20 ==
    /\ Done /\ fn = "manual" /\ outcome.kind = "return"
    /\ Len(args.ration_df) = 2
    /\ args.ration_df[1].Ingredient = args.ration_df[2].Ingredient
    /\ args.ration_df[1].DM_perc # args.ration_df[2].DM_perc
    /\ Names(args.ration_df) \subseteq DOMAIN args.ingredient_prices
    /\ ration_local[1].daily_cost # ration_local[2].daily_cost
    /\ diet_cost_p_d = FAdd(ration_local[1].daily_cost, ration_local[2].daily_cost)
\* the lines of a ration, in ration order, that a table does not price
RECURSIVE unmatched_ingredients_of(_, _)
unmatched_ingredients_of(df, table) ==
    IF df = <<>> THEN <<>>
    ELSE IF Head(df).Ingredient \in DOMAIN table
         THEN unmatched_ingredients_of(Tail(df), table)
         ELSE <<Head(df).Ingredient>> \o unmatched_ingredients_of(Tail(df), table)

\* calls i and j are calc_IOFC_manual calls on the same lines in some order,
\* with every other argument and the module-level table the same
SameLinesReordered(i, j) ==
    /\ calls[i].fn = "manual" /\ calls[j].fn = "manual"
    /\ [calls[i].args EXCEPT !.ration_df = <<>>] = [calls[j].args EXCEPT !.ration_df = <<>>]
    /\ calls[i].table = calls[j].table
    /\ Len(calls[i].args.ration_df) = Len(calls[j].args.ration_df)
    /\ \E p \in Perms(Len(calls[i].args.ration_df)) :
           calls[j].args.ration_df = Permute(calls[i].args.ration_df, p)

CallFeedCost(n) == ManualFeedCost(calls[n].args.ration_df, calls[n].args.ingredient_prices)

====
